---- MODULE Spec2Model ----
(***************************************************************************)
(* CLR(1) parser generator: grammar text -> Grammar -> LR(1) item sets ->  *)
(* DFA -> ACTION/GOTO table -> shift-reduce recognizer.                    *)
(*                                                                         *)
(* Two copies of the pipeline exist: src/lib/clr-parser.ts ("lib") and     *)
(* src/unnamed/part_001 ("part_001", which also holds parseString).  They  *)
(* differ in one expression of parseGrammar; the variable `copy` says      *)
(* which one a run uses.                                                   *)
(*                                                                         *)
(* Text is modelled at the level of whitespace-separated words.  A line is *)
(* [words, trail]: its words in order and whether whitespace follows the   *)
(* last word.  JS arrays are 0-based, TLA+ sequences 1-based: JS a[k] is   *)
(* a[k+1] here.  JS Sets keep insertion order and are modelled as          *)
(* duplicate-free sequences.                                               *)
(***************************************************************************)
EXTENDS Naturals, Integers, Sequences, FiniteSets, Bags, TLC

VARIABLES copy, grammar, pc, error, parsedGrammar, items, stateMap, dfa,
          parsingTable, input, tokens, stack, pointer, steps, validationResult,
          isGenerating, activeTab, pending

vars == <<copy, grammar, pc, error, parsedGrammar, items, stateMap, dfa,
          parsingTable, input, tokens, stack, pointer, steps, validationResult,
          isGenerating, activeTab, pending>>

\* the state of the page beside the grammar and its tables: the two flags
\* of useState and the handler invocations that wait on a timer
pageVars == <<isGenerating, activeTab, pending>>

-----------------------------------------------------------------------------
(* Reserved words of the text.  The source writes the epsilon marker and   *)
(* the dot marker as the single characters U+03B5 and U+2022.              *)

EPSILON == "<epsilon>"
DOT == "<dot>"
END == "$"
ARROW == "->"

(* The words of the model's universe that match /^[a-z0-9]+$/ and          *)
(* /^[A-Z][A-Za-z0-9]*$/.                                                  *)
LowerWords == {"a", "b", "c", "d"}
UpperWords == {"S", "A", "B", "X", "M", "N"}

isTerminalWord(symbol) == symbol \in LowerWords
isNonTerminalWord(symbol) == symbol \in UpperWords

-----------------------------------------------------------------------------
(* JS helpers *)

Includes(seq, x) == \E k \in 1..Len(seq) : seq[k] = x

\* Set.prototype.add on an insertion-ordered set
SetAdd(seq, x) == IF Includes(seq, x) THEN seq ELSE Append(seq, x)

RECURSIVE SetAddAll(_, _)
SetAddAll(seq, xs) ==
  IF xs = <<>> THEN seq ELSE SetAddAll(SetAdd(seq, Head(xs)), Tail(xs))

\* a delete that removes nothing
SetDeleteNothing(seq, x) == seq

\* Set.prototype.delete
RECURSIVE SetDelete(_, _)
SetDelete(seq, x) ==
  IF seq = <<>> THEN <<>>
  ELSE IF Head(seq) = x THEN SetDelete(Tail(seq), x)
  ELSE <<Head(seq)>> \o SetDelete(Tail(seq), x)

\* Array.prototype.slice(from) with a 0-based index
Slice(seq, from) == SubSeq(seq, from + 1, Len(seq))

Range(seq) == {seq[k] : k \in 1..Len(seq)}

-----------------------------------------------------------------------------
(* parseGrammar *)

BlankLine == [words |-> <<>>, trail |-> FALSE]
isBlank(line) == line.words = <<>>

RECURSIVE dropLeadingBlank(_)
dropLeadingBlank(text) ==
  IF text # <<>> /\ isBlank(Head(text)) THEN dropLeadingBlank(Tail(text)) ELSE text

RECURSIVE dropTrailingBlank(_)
dropTrailingBlank(text) ==
  IF text # <<>> /\ isBlank(text[Len(text)])
  THEN dropTrailingBlank(SubSeq(text, 1, Len(text) - 1))
  ELSE text

\* input.trim().split("\n"): leading and trailing whitespace (blank lines,
\* the whitespace after the last word) is removed; splitting the empty
\* string yields one empty line.
trimSplit(text) ==
  LET t == dropTrailingBlank(dropLeadingBlank(text))
  IN IF t = <<>> THEN <<BlankLine>>
     ELSE [t EXCEPT ![Len(t)] = [@ EXCEPT !.trail = FALSE]]

\* line.match(/^\s*([A-Z][A-Za-z0-9]*)\s*->\s*(.+)\s*$/): (.+) needs at least
\* one character after the arrow; whitespace counts.
matchLine(line) ==
  /\ Len(line.words) >= 2
  /\ isNonTerminalWord(line.words[1])
  /\ line.words[2] = ARROW
  /\ (Len(line.words) >= 3 \/ line.trail)

\* rhsStr.trim() === EPSILON || rhsStr.trim() === "" ? [EPSILON] : rhsStr.trim().split(/\s+/)
rhsOfLine(line) ==
  LET rhsWords == SubSeq(line.words, 3, Len(line.words))
  IN IF rhsWords = <<EPSILON>> \/ rhsWords = <<>> THEN <<EPSILON>> ELSE rhsWords

\* The rhs stored in the production.  lib compares the array with a fresh
\* array literal (rhs === [EPSILON]), which is reference inequality: false.
storedRhs(cp, rhs) ==
  IF cp = "lib" THEN rhs
  ELSE IF Len(rhs) = 1 /\ rhs[1] = EPSILON THEN <<>> ELSE rhs

\* the loop over the symbols of one rhs
RECURSIVE classifySymbols(_, _, _, _)
classifySymbols(rhs, k, terminals, nonTerminals) ==
  IF k > Len(rhs)
  THEN [error |-> "", terminals |-> terminals, nonTerminals |-> nonTerminals]
  ELSE LET symbol == rhs[k]
       IN IF symbol = EPSILON
          THEN classifySymbols(rhs, k + 1, terminals, nonTerminals)
          ELSE IF isTerminalWord(symbol)
          THEN classifySymbols(rhs, k + 1, SetAdd(terminals, symbol), nonTerminals)
          ELSE IF isNonTerminalWord(symbol)
          THEN classifySymbols(rhs, k + 1, terminals, SetAdd(nonTerminals, symbol))
          ELSE IF symbol # ""
          THEN [error |-> "Invalid symbol in production",
                terminals |-> terminals, nonTerminals |-> nonTerminals]
          ELSE classifySymbols(rhs, k + 1, terminals, nonTerminals)

\* the loop over the lines; i is the 0-based line index
RECURSIVE parseLines(_, _, _, _, _, _)
parseLines(cp, lines, i, productions, terminals, nonTerminals) ==
  IF i >= Len(lines)
  THEN [error |-> "", productions |-> productions,
        terminals |-> terminals, nonTerminals |-> nonTerminals]
  ELSE LET line == lines[i + 1]
       IN IF ~matchLine(line)
          THEN [error |-> "Invalid production format", productions |-> productions,
                terminals |-> terminals, nonTerminals |-> nonTerminals]
          ELSE LET lhs == line.words[1]
                   rhs == rhsOfLine(line)
                   c == classifySymbols(rhs, 1, terminals, SetAdd(nonTerminals, lhs))
               IN IF c.error # ""
                  THEN [error |-> c.error, productions |-> productions,
                        terminals |-> c.terminals, nonTerminals |-> c.nonTerminals]
                  ELSE parseLines(cp, lines, i + 1,
                         Append(productions,
                                [lhs |-> lhs, rhs |-> storedRhs(cp, rhs), id |-> i + 1]),
                         c.terminals, c.nonTerminals)

\* `${startSymbol}'`
augmented(startSymbol) == startSymbol \o "'"

NoGrammar == [productions |-> <<>>, terminals |-> <<>>, nonTerminals |-> <<>>,
              startSymbol |-> ""]

\* parseGrammar with the augmented production pushed behind the others
parseGrammarAppended(cp, text) ==
  LET lines == trimSplit(text)
      r == parseLines(cp, lines, 0, <<>>, <<>>, <<>>)
  IN IF r.error # ""
     THEN [error |-> r.error, grammar |-> NoGrammar]
     ELSE LET startSymbol == r.productions[1].lhs
          IN [error |-> "",
              grammar |->
                [productions |->
                   Append(r.productions,
                          [lhs |-> augmented(startSymbol), rhs |-> <<startSymbol>>, id |-> 0]),
                 terminals |-> SetAdd(r.terminals, END),
                 nonTerminals |-> SetAdd(r.nonTerminals, augmented(startSymbol)),
                 startSymbol |-> augmented(startSymbol)]]

\* Returns [error, grammar]; error # "" stands for the thrown Error.
parseGrammar(cp, text) ==
  LET lines == trimSplit(text)
  IN IF Len(lines) = 0
     THEN [error |-> "Grammar cannot be empty", grammar |-> NoGrammar]
     ELSE LET r == parseLines(cp, lines, 0, <<>>, <<>>, <<>>)
          IN IF r.error # ""
             THEN [error |-> r.error, grammar |-> NoGrammar]
             ELSE LET startSymbol == r.productions[1].lhs
                      augmentedStartSymbol == augmented(startSymbol)
                  IN [error |-> "",
                      grammar |->
                        [productions |->
                           <<[lhs |-> augmentedStartSymbol, rhs |-> <<startSymbol>>,
                              id |-> 0]>> \o r.productions,
                         terminals |-> SetAdd(r.terminals, END),
                         nonTerminals |-> SetAdd(r.nonTerminals, augmentedStartSymbol),
                         startSymbol |-> augmentedStartSymbol]]

-----------------------------------------------------------------------------
(* itemsEqual, arraysEqual *)

\* Array.prototype.join(" "): symbols hold no blank, so two joins are equal
\* exactly when the arrays are; the joined string is modelled by the array.
join(arr) == arr

arraysEqual(arr1, arr2) ==
  IF Len(arr1) # Len(arr2) THEN FALSE
  ELSE \A k \in 1..Len(arr2) : arr2[k] \in Range(arr1)

itemsEqual(item1, item2) ==
  /\ item1.production.lhs = item2.production.lhs
  /\ join(item1.production.rhs) = join(item2.production.rhs)
  /\ item1.dotPosition = item2.dotPosition
  /\ arraysEqual(item1.lookahead, item2.lookahead)

-----------------------------------------------------------------------------
(* computeFirst *)

(* computeFirst is a pure recursive function whose arguments range over a  *)
(* finite set (suffixes of the initial sequence and of right-hand sides).  *)
(* A call that re-enters its own argument therefore recurses without end   *)
(* and the engine throws RangeError (call stack exhausted); a call that    *)
(* never does returns.  `active` is the chain of arguments of the calls in *)
(* progress.  Results are [thrown, first]; first is in insertion order.    *)

\* the message of the RangeError of an exhausted call stack
RangeError == "Maximum call stack size exceeded"

Thrown == [thrown |-> TRUE, first |-> <<>>]

RECURSIVE computeFirstRec(_, _, _)
RECURSIVE firstOfProductions(_, _, _, _, _)

\* the loop over grammar.productions; k is the 1-based position
firstOfProductions(g, symbols, active, k, first) ==
  IF k > Len(g.productions) THEN [thrown |-> FALSE, first |-> first]
  ELSE LET production == g.productions[k]
       IN IF production.lhs # symbols[1]
          THEN firstOfProductions(g, symbols, active, k + 1, first)
          ELSE IF Len(production.rhs) = 0 \/ production.rhs[1] = EPSILON
          THEN LET f1 == SetAdd(first, EPSILON)
               IN IF Len(symbols) > 1
                  THEN LET restFirst == computeFirstRec(g, Slice(symbols, 1), active)
                       IN IF restFirst.thrown THEN Thrown
                          ELSE firstOfProductions(g, symbols, active, k + 1,
                                                  SetAddAll(f1, restFirst.first))
                  ELSE firstOfProductions(g, symbols, active, k + 1, f1)
          ELSE LET rhsFirst == computeFirstRec(g, production.rhs, active)
               IN IF rhsFirst.thrown THEN Thrown
                  ELSE LET f1 == SetAddAll(first, SetDelete(rhsFirst.first, EPSILON))
                       IN IF Includes(rhsFirst.first, EPSILON) /\ Len(symbols) > 1
                          THEN LET restFirst == computeFirstRec(g, Slice(symbols, 1), active)
                               IN IF restFirst.thrown THEN Thrown
                                  ELSE firstOfProductions(g, symbols, active, k + 1,
                                                          SetAddAll(f1, restFirst.first))
                          ELSE firstOfProductions(g, symbols, active, k + 1, f1)

computeFirstRec(g, symbols, callers) ==
  IF symbols \in callers THEN Thrown
  ELSE IF Len(symbols) = 0 THEN [thrown |-> FALSE, first |-> <<EPSILON>>]
  ELSE LET firstSymbol == symbols[1]
       IN IF Includes(g.terminals, firstSymbol)
          THEN [thrown |-> FALSE, first |-> <<firstSymbol>>]
          ELSE firstOfProductions(g, symbols, callers \cup {symbols}, 1, <<>>)

computeFirst(g, symbols) == computeFirstRec(g, symbols, {})

-----------------------------------------------------------------------------
(* closure, goto *)

\* the two inner loops: productions of the non-terminal x lookaheads
RECURSIVE addItems(_, _, _, _, _, _)
addItems(g, symbolAfterDot, firstSet, k, j, acc) ==
  IF k > Len(g.productions) THEN acc
  ELSE LET production == g.productions[k]
       IN IF production.lhs # symbolAfterDot \/ j > Len(firstSet)
          THEN addItems(g, symbolAfterDot, firstSet, k + 1, 1, acc)
          ELSE LET newItem == [production |-> production, dotPosition |-> 0,
                               lookahead |-> <<firstSet[j]>>]
                   present == \E n \in 1..Len(acc.result) : itemsEqual(acc.result[n], newItem)
               IN addItems(g, symbolAfterDot, firstSet, k, j + 1,
                    IF present THEN acc
                    ELSE [result |-> Append(acc.result, newItem), changed |-> TRUE])

\* the lookahead alone, without the symbols after the non-terminal
lookaheadOnly(item) == item.lookahead

\* [...beta, ...item.lookahead]
lookaheadSymbols(item) ==
  Slice(item.production.rhs, item.dotPosition + 1) \o item.lookahead

\* one pass of the for loop; i is the 0-based index into the growing result
RECURSIVE closurePass(_, _, _)
closurePass(g, i, acc) ==
  IF i >= Len(acc.result) THEN [thrown |-> FALSE, result |-> acc.result, changed |-> acc.changed]
  ELSE LET item == acc.result[i + 1]
       IN IF item.dotPosition < Len(item.production.rhs)
          THEN LET symbolAfterDot == item.production.rhs[item.dotPosition + 1]
               IN IF Includes(g.nonTerminals, symbolAfterDot)
                  THEN LET f == computeFirst(g, lookaheadSymbols(item))
                       IN IF f.thrown
                          THEN [thrown |-> TRUE, result |-> <<>>, changed |-> FALSE]
                          ELSE closurePass(g, i + 1,
                                 addItems(g, symbolAfterDot, SetDelete(f.first, EPSILON),
                                          1, 1, acc))
                  ELSE closurePass(g, i + 1, acc)
          ELSE closurePass(g, i + 1, acc)

\* while (changed)
RECURSIVE closureLoop(_, _)
closureLoop(g, result) ==
  LET p == closurePass(g, 0, [result |-> result, changed |-> FALSE])
  IN IF p.thrown THEN [thrown |-> TRUE, result |-> <<>>]
     ELSE IF p.changed THEN closureLoop(g, p.result)
     ELSE [thrown |-> FALSE, result |-> p.result]

\* Returns [thrown, result].
closure(g, its) == closureLoop(g, its)

RECURSIVE advance(_, _)
advance(its, symbol) ==
  IF its = <<>> THEN <<>>
  ELSE LET item == Head(its)
       IN IF item.dotPosition < Len(item.production.rhs)
             /\ item.production.rhs[item.dotPosition + 1] = symbol
          THEN <<[production |-> item.production,
                  dotPosition |-> item.dotPosition + 1,
                  lookahead |-> item.lookahead]>> \o advance(Tail(its), symbol)
          ELSE advance(Tail(its), symbol)

goto(g, its, symbol) == closure(g, advance(its, symbol))

-----------------------------------------------------------------------------
(* generateClrItems *)

\* rhsCopy.splice(item.dotPosition, 0, DOT)
withDot(item) ==
  SubSeq(item.production.rhs, 1, item.dotPosition) \o <<DOT>>
    \o Slice(item.production.rhs, item.dotPosition)

\* `${lhs}->${rhsCopy.join(" ")},${item.lookahead.join("/")}`: the separators
\* occur in no symbol, so the string is determined by, and determines, its
\* three parts.
itemString(item) ==
  [lhs |-> item.production.lhs, rhs |-> withDot(item), lookahead |-> item.lookahead]

\* a signature whose item strings are joined without being sorted
getStateSignatureUnsorted(its) == [k \in 1..Len(its) |-> itemString(its[k])]

\* a signature that leaves the lookahead out of the item string
RECURSIVE getStateSignatureCores(_)
getStateSignatureCores(its) ==
  IF its = <<>> THEN EmptyBag
  ELSE SetToBag({[lhs |-> Head(its).production.lhs, rhs |-> withDot(Head(its))]})
         (+) getStateSignatureCores(Tail(its))

\* .map(...).sort().join("|"): the sorted list of strings, joined with a
\* separator that occurs in none of them, identifies the multiset of strings.
RECURSIVE getStateSignature(_)
getStateSignature(its) ==
  IF its = <<>> THEN EmptyBag
  ELSE SetToBag({itemString(Head(its))}) (+) getStateSignature(Tail(its))

\* the symbols after the dot, in first-occurrence order
RECURSIVE symbolsAfterDot(_, _)
symbolsAfterDot(its, symbols) ==
  IF its = <<>> THEN symbols
  ELSE LET item == Head(its)
       IN symbolsAfterDot(Tail(its),
            IF item.dotPosition < Len(item.production.rhs)
            THEN SetAdd(symbols, item.production.rhs[item.dotPosition + 1])
            ELSE symbols)

mapHas(map, signature) == \E k \in 1..Len(map) : map[k].signature = signature
mapGet(map, signature) ==
  (CHOOSE k \in 1..Len(map) : map[k].signature = signature) - 1

\* gotoItems.filter(...): the items that came from advancing the dot
RECURSIVE kernelOf(_, _, _)
kernelOf(gotoItems, stateItems, symbol) ==
  IF gotoItems = <<>> THEN <<>>
  ELSE LET item == Head(gotoItems)
           keep == \E n \in 1..Len(stateItems) :
                     LET stateItem == stateItems[n]
                     IN /\ stateItem.dotPosition < Len(stateItem.production.rhs)
                        /\ stateItem.production.rhs[stateItem.dotPosition + 1] = symbol
                        /\ stateItem.production.lhs = item.production.lhs
                        /\ join(stateItem.production.rhs) = join(item.production.rhs)
                        /\ item.dotPosition = stateItem.dotPosition + 1
       IN (IF keep THEN <<item>> ELSE <<>>) \o kernelOf(Tail(gotoItems), stateItems, symbol)

\* the loop over the symbols of states[i]; acc is [thrown, states, stateMap]
RECURSIVE exploreSymbols(_, _, _, _, _)
exploreSymbols(g, state, symbols, k, acc) ==
  IF k > Len(symbols) THEN acc
  ELSE LET symbol == symbols[k]
           gotoItems == goto(g, state.items, symbol)
       IN IF gotoItems.thrown
          THEN [thrown |-> TRUE, states |-> <<>>, stateMap |-> <<>>]
          ELSE IF Len(gotoItems.result) > 0
                  /\ ~mapHas(acc.stateMap, getStateSignature(gotoItems.result))
          THEN LET newStateId == Len(acc.states)
               IN exploreSymbols(g, state, symbols, k + 1,
                    [thrown |-> FALSE,
                     states |-> Append(acc.states,
                                  [id |-> newStateId, items |-> gotoItems.result,
                                   kernel |-> kernelOf(gotoItems.result, state.items, symbol)]),
                     stateMap |-> Append(acc.stateMap,
                                  [signature |-> getStateSignature(gotoItems.result),
                                   id |-> newStateId])])
          ELSE exploreSymbols(g, state, symbols, k + 1, acc)

\* while (i < states.length)
RECURSIVE exploreStates(_, _, _)
exploreStates(g, i, acc) ==
  IF acc.thrown \/ i >= Len(acc.states) THEN acc
  ELSE LET state == acc.states[i + 1]
       IN exploreStates(g, i + 1,
            exploreSymbols(g, state, symbolsAfterDot(state.items, <<>>), 1, acc))

\* generateClrItems with the initial state numbered 1
generateClrItemsFromOne(g) ==
  LET initialItem == [production |-> g.productions[1], dotPosition |-> 0,
                      lookahead |-> <<END>>]
      initialClosure == closure(g, <<initialItem>>)
  IN IF initialClosure.thrown
     THEN [thrown |-> TRUE, states |-> <<>>, stateMap |-> <<>>]
     ELSE exploreStates(g, 0,
            [thrown |-> FALSE,
             states |-> <<[id |-> 1, items |-> initialClosure.result,
                           kernel |-> <<initialItem>>]>>,
             stateMap |-> <<[signature |-> getStateSignature(initialClosure.result),
                             id |-> 1]>>])

\* Returns [thrown, states, stateMap]; stateMap is the function's local map
\* as it stands when the function returns.
generateClrItems(g) ==
  LET initialItem == [production |-> g.productions[1], dotPosition |-> 0,
                      lookahead |-> <<END>>]
      initialClosure == closure(g, <<initialItem>>)
  IN IF initialClosure.thrown
     THEN [thrown |-> TRUE, states |-> <<>>, stateMap |-> <<>>]
     ELSE exploreStates(g, 0,
            [thrown |-> FALSE,
             states |-> <<[id |-> 0, items |-> initialClosure.result,
                           kernel |-> <<initialItem>>]>>,
             stateMap |-> <<[signature |-> getStateSignature(initialClosure.result),
                             id |-> 0]>>])

-----------------------------------------------------------------------------
(* generateDfa *)

\* `${lhs} -> ${rhsCopy.join(" ")}, ${item.lookahead.join("/")}` per item
nodeLabel(its) == [k \in 1..Len(its) |-> itemString(its[k])]

sameItems(gotoItems, targetItems) ==
  /\ Len(gotoItems) = Len(targetItems)
  /\ \A m \in 1..Len(gotoItems) :
       \E n \in 1..Len(targetItems) : itemsEqual(gotoItems[m], targetItems[n])

\* the loop over the symbols of one state; the inner loop over the target
\* states stops at the first match
RECURSIVE edgesOfSymbols(_, _, _, _, _, _)
edgesOfSymbols(g, states, state, symbols, k, edges) ==
  IF k > Len(symbols) THEN edges
  ELSE LET symbol == symbols[k]
           gotoItems == goto(g, state.items, symbol).result
           matches == {n \in 1..Len(states) : sameItems(gotoItems, states[n].items)}
       IN edgesOfSymbols(g, states, state, symbols, k + 1,
            IF Len(gotoItems) > 0 /\ matches # {}
            THEN Append(edges,
                   [source |-> state.id,
                    target |-> states[CHOOSE n \in matches : \A m \in matches : n <= m].id,
                    label |-> symbol])
            ELSE edges)

RECURSIVE edgesOfStates(_, _, _, _)
edgesOfStates(g, states, n, edges) ==
  IF n > Len(states) THEN edges
  ELSE edgesOfStates(g, states, n + 1,
         edgesOfSymbols(g, states, states[n],
                        symbolsAfterDot(states[n].items, <<>>), 1, edges))

generateDfa(states, g) ==
  [nodes |-> [n \in 1..Len(states) |->
                [id |-> states[n].id, label |-> nodeLabel(states[n].items)]],
   edges |-> edgesOfStates(g, states, 1, <<>>)]

-----------------------------------------------------------------------------
(* generateParsingTable *)

(* An action string is `s<n>`, `r<n>` or `acc`, modelled as [kind, n]:     *)
(* startsWith("s") is kind = "s", parseInt(substring(1)) is n.  A row of   *)
(* the table is a function whose domain is the set of keys written.        *)

Shift(n) == [kind |-> "s", n |-> n]

\* a reduce entry that names the production before the reduced one
ReducePrevious(n) == [kind |-> "r", n |-> n - 1]

Reduce(n) == [kind |-> "r", n |-> n]
Accept == [kind |-> "acc", n |-> 0]

EmptyRow == <<>>
Has(row, key) == key \in DOMAIN row
Put(row, key, value) ==
  [x \in (DOMAIN row) \cup {key} |-> IF x = key THEN value ELSE row[x]]

\* addEdges that writes no goto entry
RECURSIVE addEdgesNoGoto(_, _, _, _)
addEdgesNoGoto(g, edges, k, t) ==
  IF k > Len(edges) THEN t
  ELSE addEdgesNoGoto(g, edges, k + 1,
         IF Includes(g.terminals, edges[k].label)
         THEN [t EXCEPT !.actions[edges[k].source] =
                          Put(@, edges[k].label, Shift(edges[k].target))]
         ELSE t)

\* addEdges that shifts to the source of the edge
RECURSIVE addEdgesToSource(_, _, _, _)
addEdgesToSource(g, edges, k, t) ==
  IF k > Len(edges) THEN t
  ELSE addEdgesToSource(g, edges, k + 1,
         IF Includes(g.terminals, edges[k].label)
         THEN [t EXCEPT !.actions[edges[k].source] =
                          Put(@, edges[k].label, Shift(edges[k].source))]
         ELSE IF Includes(g.nonTerminals, edges[k].label)
         THEN [t EXCEPT !.gotos[edges[k].source] = Put(@, edges[k].label, edges[k].target)]
         ELSE t)

\* the loop over dfa.edges
RECURSIVE addEdges(_, _, _, _)
addEdges(g, edges, k, t) ==
  IF k > Len(edges) THEN t
  ELSE LET edge == edges[k]
       IN addEdges(g, edges, k + 1,
            IF Includes(g.terminals, edge.label)
            THEN [t EXCEPT !.actions[edge.source] = Put(@, edge.label, Shift(edge.target))]
            ELSE IF Includes(g.nonTerminals, edge.label)
            THEN [t EXCEPT !.gotos[edge.source] = Put(@, edge.label, edge.target)]
            ELSE t)

\* addReduces without the test for an existing shift
RECURSIVE addReducesOverwrite(_, _, _)
addReducesOverwrite(row, item, k) ==
  IF k > Len(item.lookahead) THEN row
  ELSE addReducesOverwrite(
         [x \in (DOMAIN row) \cup {item.lookahead[k]} |->
            IF x = item.lookahead[k] THEN [kind |-> "r", n |-> item.production.id]
            ELSE row[x]],
         item, k + 1)

\* addReduces that keeps a reduce already in the cell
RECURSIVE addReducesFirstWins(_, _, _)
addReducesFirstWins(row, item, k) ==
  IF k > Len(item.lookahead) THEN row
  ELSE addReducesFirstWins(
         IF item.lookahead[k] \in DOMAIN row THEN row
         ELSE [x \in (DOMAIN row) \cup {item.lookahead[k]} |->
                 IF x = item.lookahead[k] THEN [kind |-> "r", n |-> item.production.id]
                 ELSE row[x]],
         item, k + 1)

startsWithS(action) == action.kind = "s"

\* for (const lookahead of item.lookahead)
RECURSIVE addReduces(_, _, _)
addReduces(row, item, k) ==
  IF k > Len(item.lookahead) THEN row
  ELSE LET lookahead == item.lookahead[k]
       IN addReduces(
            IF ~Has(row, lookahead) \/ ~startsWithS(row[lookahead])
            THEN Put(row, lookahead, Reduce(item.production.id))
            ELSE row,
            item, k + 1)

\* addItemActions without the accept case: the augmented item gets a reduce
RECURSIVE addItemActionsNoAccept(_, _, _, _)
addItemActionsNoAccept(g, its, k, row) ==
  IF k > Len(its) THEN row
  ELSE addItemActionsNoAccept(g, its, k + 1,
         IF its[k].dotPosition = Len(its[k].production.rhs)
         THEN addReduces(row, its[k], 1)
         ELSE row)

\* the loop over the items of one state
RECURSIVE addItemActions(_, _, _, _)
addItemActions(g, its, k, row) ==
  IF k > Len(its) THEN row
  ELSE LET item == its[k]
       IN addItemActions(g, its, k + 1,
            IF item.dotPosition = Len(item.production.rhs)
            THEN IF item.production.lhs = g.startSymbol /\ Includes(item.lookahead, END)
                 THEN Put(row, END, Accept)
                 ELSE addReduces(row, item, 1)
            ELSE row)

RECURSIVE addStateActions(_, _, _, _)
addStateActions(g, states, n, t) ==
  IF n > Len(states) THEN t
  ELSE addStateActions(g, states, n + 1,
         [t EXCEPT !.actions[states[n].id] =
                     addItemActions(g, states[n].items, 1, @)])

RECURSIVE filterOut(_, _)
filterOut(seq, x) ==
  IF seq = <<>> THEN <<>>
  ELSE (IF Head(seq) # x THEN <<Head(seq)>> ELSE <<>>) \o filterOut(Tail(seq), x)

generateParsingTable(states, d, g) ==
  LET ids == {states[n].id : n \in 1..Len(states)}
      init == [actions |-> [id \in ids |-> EmptyRow], gotos |-> [id \in ids |-> EmptyRow]]
      t == addStateActions(g, states, 1, addEdges(g, d.edges, 1, init))
  IN [actions |-> t.actions,
      gotos |-> t.gotos,
      terminals |-> g.terminals,
      nonTerminals |-> filterOut(g.nonTerminals, g.startSymbol),
      states |-> [n \in 1..Len(states) |-> states[n].id]]

-----------------------------------------------------------------------------
(* parseString, one loop iteration per step *)

\* input.split(/\s+/) of a string without leading or trailing whitespace:
\* its words; the empty string splits into one empty token.
split(words) == IF words = <<>> THEN <<"">> ELSE words

Undefined == "undefined"

\* stack.splice(-popCount): a negative start counts from the end; -0 is 0,
\* so a zero popCount removes from index 0, i.e. everything.
splice(stk, popCount) ==
  IF popCount = 0 THEN <<>>
  ELSE SubSeq(stk, 1, IF Len(stk) > popCount THEN Len(stk) - popCount ELSE 0)

\* The words of the model's universe that name a property of
\* Object.prototype.  The rows of the table are object literals ({}), so
\* row[key] for such a key that was never written yields the inherited
\* property: a function, which is truthy, is not "acc" and has no startsWith.
ObjectPrototypeKeys == {"constructor"}

\* the message of the TypeError of calling the missing method
TypeError == "action.startsWith is not a function"

\* a step that leaves the pointer where it is
keepPointer(ptr) == ptr

\* pointer++
advancePointer(ptr) == ptr + 1

\* The values of the locals after one iteration of while (true);
\* returned = TRUE when the iteration executes a return statement, thrown =
\* TRUE when it raises.
parseStep(g, table, toks, stk, ptr, trace) ==
  LET currentState == stk[Len(stk)]
      currentToken == IF ptr < Len(toks) THEN toks[ptr + 1] ELSE Undefined
      row == table.actions[currentState]
  IN IF ~Has(row, currentToken) /\ currentToken \in ObjectPrototypeKeys
     THEN [returned |-> FALSE, thrown |-> TRUE, isValid |-> FALSE, stack |-> stk,
           pointer |-> ptr, steps |-> trace]
     ELSE IF ~Has(row, currentToken)
     THEN [returned |-> TRUE, thrown |-> FALSE, isValid |-> FALSE, stack |-> stk,
           pointer |-> ptr,
           steps |-> Append(trace, [kind |-> "Error: No action found",
                                    state |-> currentState, symbol |-> currentToken])]
     ELSE LET action == row[currentToken]
          IN IF action = Accept
             THEN [returned |-> TRUE, thrown |-> FALSE, isValid |-> TRUE, stack |-> stk,
                   pointer |-> ptr,
                   steps |-> Append(trace, [kind |-> "String accepted!",
                                            state |-> currentState, symbol |-> currentToken])]
             ELSE IF startsWithS(action)
             THEN [returned |-> FALSE, thrown |-> FALSE, isValid |-> FALSE,
                   stack |-> stk \o <<currentToken, action.n>>,
                   pointer |-> advancePointer(ptr),
                   steps |-> Append(trace, [kind |-> "Shift", state |-> action.n,
                                            symbol |-> currentToken])]
             ELSE LET production == g.productions[action.n + 1]
                      popCount == Len(production.rhs) * 2
                  IN IF popCount > Len(stk)
                     THEN [returned |-> TRUE, thrown |-> FALSE, isValid |-> FALSE,
                           stack |-> stk, pointer |-> ptr,
                           steps |-> Append(trace, [kind |-> "Error: Stack underflow",
                                                    state |-> currentState,
                                                    symbol |-> currentToken])]
                     ELSE LET popped == splice(stk, popCount)
                              known == popped # <<>>
                                       /\ Has(table.gotos[popped[Len(popped)]], production.lhs)
                          IN IF ~known
                             THEN [returned |-> TRUE, thrown |-> FALSE, isValid |-> FALSE,
                                   stack |-> popped, pointer |-> ptr,
                                   steps |-> Append(trace,
                                     [kind |-> "Error: No goto state found",
                                      state |-> IF popped = <<>> THEN Undefined
                                                ELSE popped[Len(popped)],
                                      symbol |-> production.lhs])]
                             ELSE LET gotoState == table.gotos[popped[Len(popped)]][production.lhs]
                                  IN [returned |-> FALSE, thrown |-> FALSE, isValid |-> FALSE,
                                      stack |-> popped \o <<production.lhs, gotoState>>,
                                      pointer |-> ptr,
                                      steps |-> Append(trace,
                                        [kind |-> "Reduce", state |-> gotoState,
                                         symbol |-> production.lhs])]

-----------------------------------------------------------------------------
(* Inputs *)

MaxInputLen == 3
MaxSteps == 14

InputWords == {"a", "b"}

InputStrings == UNION {[1..n -> InputWords] : n \in 0..MaxInputLen}

\* input strings with a token that names a property of Object.prototype
PrototypeInputs == {<<"constructor">>, <<"a", "constructor">>}

Inputs == InputStrings \cup PrototypeInputs

Line(words) == [words |-> words, trail |-> FALSE]

ExampleGrammar ==
  <<Line(<<"S", ARROW, "A", "A">>), Line(<<"A", ARROW, "a", "A">>), Line(<<"A", ARROW, "b">>)>>

SingleGrammar == <<Line(<<"S", ARROW, "a">>)>>

EpsilonGrammar == <<Line(<<"S", ARROW, EPSILON>>)>>

NestedGrammar == <<Line(<<"S", ARROW, "a", "S", "b">>), Line(<<"S", ARROW, EPSILON>>)>>

LeftRecursiveGrammar ==
  <<Line(<<"S", ARROW, "A", "A">>), Line(<<"A", ARROW, "A", "a">>), Line(<<"A", ARROW, "b">>)>>

LeftListGrammar == <<Line(<<"S", ARROW, "S", "a">>), Line(<<"S", ARROW, "b">>)>>

UnitCycleGrammar == <<Line(<<"S", ARROW, "S">>), Line(<<"S", ARROW, "a">>)>>

InfixGrammar == <<Line(<<"S", ARROW, "S", "a", "S">>), Line(<<"S", ARROW, "b">>)>>

DuplicateGrammar ==
  <<Line(<<"S", ARROW, "A", "b">>), Line(<<"A", ARROW, "a">>), Line(<<"A", ARROW, "a">>)>>

ReduceReduceGrammar ==
  <<Line(<<"S", ARROW, "A">>), Line(<<"S", ARROW, "B">>),
    Line(<<"A", ARROW, "a">>), Line(<<"B", ARROW, "a">>)>>

NullableChainGrammar ==
  <<Line(<<"S", ARROW, "X", "X", "b">>), Line(<<"X", ARROW, "M">>),
    Line(<<"M", ARROW, "N">>), Line(<<"N", ARROW, EPSILON>>)>>

InnerEpsilonGrammar == <<Line(<<"S", ARROW, "a", EPSILON>>)>>

BadSymbolGrammar == <<Line(<<"S", ARROW, "a", END>>)>>

BadLineGrammar == <<Line(<<"S", ARROW, "a">>), Line(<<"s", ARROW, "a">>)>>

(* A family of grammar texts: every text of one or two lines whose         *)
(* right-hand sides are one or two words of FamilyWords.                   *)

FamilyWords == {"S", "A", "a", "b", EPSILON}

FamilyRhs == {<<x>> : x \in FamilyWords} \cup {<<x, y>> : x, y \in FamilyWords}

FamilyTexts ==
  {<<Line(<<"S", ARROW>> \o r1)>> : r1 \in FamilyRhs}
    \cup {<<Line(<<"S", ARROW>> \o r1), Line(<<lhs, ARROW>> \o r2)>> :
            r1 \in FamilyRhs, lhs \in {"S", "A"}, r2 \in FamilyRhs}

NamedTexts ==
  {ExampleGrammar, SingleGrammar, EpsilonGrammar, NestedGrammar, LeftRecursiveGrammar,
   LeftListGrammar, UnitCycleGrammar, InfixGrammar, DuplicateGrammar,
   ReduceReduceGrammar, NullableChainGrammar, InnerEpsilonGrammar, BadSymbolGrammar,
   BadLineGrammar}

GrammarTexts == NamedTexts \cup FamilyTexts

Copies == {"lib", "part_001"}

-----------------------------------------------------------------------------
(* The pipeline as it is driven by its callers: parse the grammar text,    *)
(* build items, DFA and table, then validate one input string.             *)

NoDfa == [nodes |-> <<>>, edges |-> <<>>]
NoTable == [actions |-> <<>>, gotos |-> <<>>, terminals |-> <<>>,
            nonTerminals |-> <<>>, states |-> <<>>]
NoResult == [isValid |-> FALSE, steps |-> <<>>]

Init ==
  /\ copy \in Copies
  /\ grammar \in GrammarTexts
  /\ pc = "text"
  /\ error = ""
  /\ parsedGrammar = NoGrammar
  /\ items = <<>>
  /\ stateMap = <<>>
  /\ dfa = NoDfa
  /\ parsingTable = NoTable
  /\ input = <<>>
  /\ tokens = <<>>
  /\ stack = <<>>
  /\ pointer = 0
  /\ steps = <<>>
  /\ validationResult = NoResult
  /\ isGenerating = FALSE
  /\ activeTab = "input"
  /\ pending = <<>>

\* the result handleValidate stores when parseString raises
caught(message) ==
  [isValid |-> FALSE,
   steps |-> <<[kind |-> "Error: " \o message, state |-> Undefined, symbol |-> Undefined]>>]

runVars == <<input, tokens, stack, pointer, steps, validationResult>>

ParseGrammar ==
  /\ pc = "text"
  /\ LET r == parseGrammar(copy, grammar)
     IN IF r.error # ""
        THEN /\ error' = r.error
             /\ pc' = "failed"
             /\ UNCHANGED parsedGrammar
        ELSE /\ parsedGrammar' = r.grammar
             /\ pc' = "parsed"
             /\ UNCHANGED error
  /\ UNCHANGED <<copy, grammar, items, stateMap, dfa, parsingTable, runVars>>
  /\ UNCHANGED pageVars

GenerateClrItems ==
  /\ pc = "parsed"
  /\ LET r == generateClrItems(parsedGrammar)
     IN IF r.thrown
        THEN /\ error' = RangeError
             /\ pc' = "failed"
             /\ UNCHANGED <<items, stateMap>>
        ELSE /\ items' = r.states
             /\ stateMap' = r.stateMap
             /\ pc' = "items"
             /\ UNCHANGED error
  /\ UNCHANGED <<copy, grammar, parsedGrammar, dfa, parsingTable, runVars>>
  /\ UNCHANGED pageVars

GenerateDfa ==
  /\ pc = "items"
  /\ dfa' = generateDfa(items, parsedGrammar)
  /\ pc' = "dfa"
  /\ UNCHANGED <<copy, grammar, error, parsedGrammar, items, stateMap, parsingTable, runVars>>
  /\ UNCHANGED pageVars

GenerateParsingTable ==
  /\ pc = "dfa"
  /\ parsingTable' = generateParsingTable(items, dfa, parsedGrammar)
  /\ pc' = "table"
  /\ UNCHANGED <<copy, grammar, error, parsedGrammar, items, stateMap, dfa, runVars>>
  /\ UNCHANGED pageVars

\* the statements of parseString before its loop
ParseStringStart ==
  /\ pc = "table"
  /\ \E words \in Inputs :
       /\ input' = words
       /\ tokens' = split(words) \o <<END>>
  /\ stack' = <<0>>
  /\ pointer' = 0
  /\ steps' = <<>>
  /\ pc' = "parsing"
  /\ UNCHANGED <<copy, grammar, error, parsedGrammar, items, stateMap, dfa, parsingTable,
                 validationResult>>
  /\ UNCHANGED pageVars

ParseStringStep ==
  /\ pc = "parsing"
  /\ Len(steps) < MaxSteps
  /\ LET r == parseStep(parsedGrammar, parsingTable, tokens, stack, pointer, steps)
     IN /\ stack' = r.stack
        /\ pointer' = r.pointer
        /\ steps' = r.steps
        /\ IF r.thrown
           THEN /\ validationResult' = caught(TypeError)
                /\ pc' = "raised"
           ELSE IF r.returned
           THEN /\ validationResult' = [isValid |-> r.isValid, steps |-> r.steps]
                /\ pc' = "done"
           ELSE UNCHANGED <<validationResult, pc>>
  /\ UNCHANGED <<copy, grammar, error, parsedGrammar, items, stateMap, dfa, parsingTable,
                 input, tokens>>
  /\ UNCHANGED pageVars

Next ==
  \/ ParseGrammar
  \/ GenerateClrItems
  \/ GenerateDfa
  \/ GenerateParsingTable
  \/ ParseStringStart
  \/ ParseStringStep

Spec == Init /\ [][Next]_vars

-----------------------------------------------------------------------------
(* Properties *)

Built == pc \in {"table", "parsing", "done"}
HasDfa == pc \in {"dfa", "table", "parsing", "done"}
HasItems == pc \in {"items", "dfa", "table", "parsing", "done"}
HasGrammar == pc \in {"parsed", "items", "dfa", "table", "parsing", "done"}

\* a run of parseString that neither returned nor can take another step
CutOff == pc = "parsing" /\ Len(steps) >= MaxSteps

isComplete(item) == item.dotPosition = Len(item.production.rhs)

\* C2: for the example grammar S -> A A, A -> a A, A -> b the pipeline
\* builds a table, and parseString returns for every input, accepting
\* `b b` and `a b b` and rejecting `b` and `a a`.
C2_ExampleScenario ==
  grammar = ExampleGrammar =>
    /\ pc # "failed"
    /\ ~CutOff
    /\ (pc = "done" /\ input \in {<<"b", "b">>, <<"a", "b", "b">>})
         => validationResult.isValid
    /\ (pc = "done" /\ input \in {<<"b">>, <<"a", "a">>})
         => ~validationResult.isValid

C2_Witness ==
  /\ grammar = ExampleGrammar
  /\ pc = "done"
  /\ input = <<"a", "b", "b">>
  /\ validationResult.isValid
  /\ validationResult.steps[Len(validationResult.steps)].kind = "String accepted!"

\* C3: for the grammar S -> a the pipeline builds a table and parseString
\* returns for every input over the token a (and b), accepting the one-token
\* input `a` and nothing else: not the empty input, not `a a`.
C3_SingleProduction ==
  grammar = SingleGrammar =>
    /\ pc # "failed"
    /\ ~CutOff
    /\ pc = "done" => (validationResult.isValid <=> input = <<"a">>)

C3_Witness ==
  /\ grammar = SingleGrammar
  /\ pc = "done"
  /\ input = <<"a">>
  /\ validationResult.isValid
  /\ pointer = 1

\* C5: in the finished table, a state with an outgoing edge on terminal t
\* that also holds a complete item with lookahead t has the shift to the
\* edge's target in actions[state][t].
C5_ShiftWins ==
  Built =>
    \A k \in 1..Len(dfa.edges) :
      LET edge == dfa.edges[k]
          state == items[edge.source + 1]
      IN (/\ Includes(parsedGrammar.terminals, edge.label)
          /\ \E n \in 1..Len(state.items) :
               isComplete(state.items[n]) /\ Includes(state.items[n].lookahead, edge.label))
         => /\ Has(parsingTable.actions[state.id], edge.label)
            /\ parsingTable.actions[state.id][edge.label] = Shift(edge.target)

\* a state of the built table with a shift/reduce conflict
C5_Witness ==
  /\ Built
  /\ \E k \in 1..Len(dfa.edges) :
       LET edge == dfa.edges[k]
           state == items[edge.source + 1]
       IN /\ Includes(parsedGrammar.terminals, edge.label)
          /\ \E n \in 1..Len(state.items) :
               /\ isComplete(state.items[n])
               /\ Includes(state.items[n].lookahead, edge.label)
               /\ state.items[n].production.id # 0
          /\ parsingTable.actions[state.id][edge.label].kind = "s"

followsDot(state, symbol) ==
  \E n \in 1..Len(state.items) :
    /\ state.items[n].dotPosition < Len(state.items[n].production.rhs)
    /\ state.items[n].production.rhs[state.items[n].dotPosition + 1] = symbol

edgesFrom(id, symbol) ==
  {k \in 1..Len(dfa.edges) : dfa.edges[k].source = id /\ dfa.edges[k].label = symbol}

\* C9: in the automaton of generateDfa every state has exactly one outgoing
\* edge for each symbol that follows a dot in one of its items, and no edge
\* for any other symbol.
C9_OneEdgePerSymbol ==
  HasDfa =>
    /\ \A n \in 1..Len(items) :
         \A m \in 1..Len(items[n].items) :
           LET item == items[n].items[m]
           IN item.dotPosition < Len(item.production.rhs)
                => Cardinality(edgesFrom(items[n].id,
                                         item.production.rhs[item.dotPosition + 1])) = 1
    /\ \A k \in 1..Len(dfa.edges) :
         /\ dfa.edges[k].source \in 0..(Len(items) - 1)
         /\ dfa.edges[k].target \in 0..(Len(items) - 1)
         /\ followsDot(items[dfa.edges[k].source + 1], dfa.edges[k].label)

\* an automaton in which two states with the same cores and different
\* lookaheads are both targets, and some edge is a self-loop
C9_Witness ==
  /\ HasDfa
  /\ Len(items) >= 10
  /\ \E k \in 1..Len(dfa.edges) : dfa.edges[k].source = dfa.edges[k].target
  /\ \E k1, k2 \in 1..Len(dfa.edges) :
       /\ dfa.edges[k1].target # dfa.edges[k2].target
       /\ LET i1 == items[dfa.edges[k1].target + 1].items
              i2 == items[dfa.edges[k2].target + 1].items
          IN /\ Len(i1) = Len(i2)
             /\ \A m \in 1..Len(i1) :
                  /\ i1[m].production = i2[m].production
                  /\ i1[m].dotPosition = i2[m].dotPosition

-----------------------------------------------------------------------------
(* The language of a grammar text, for the token strings of InputStrings.  *)
(* Trees(text) gives, for each non-terminal N and string w, the number of  *)
(* parse trees of w from N, counted up to 2: the least fixed point of the  *)
(* productions read as equations.                                          *)

textProductions(text) ==
  LET lines == trimSplit(text)
  IN [n \in 1..Len(lines) |->
        [lhs |-> lines[n].words[1],
         rhs |-> SetDelete(SubSeq(lines[n].words, 3, Len(lines[n].words)), EPSILON)]]

textStart(text) == trimSplit(text)[1].words[1]

cap2(n) == IF n > 2 THEN 2 ELSE n

RECURSIVE countSeq(_, _, _)
RECURSIVE countSplits(_, _, _, _)

\* number of ways (up to 2) the symbol sequence alpha derives w, given T
countSeq(T, alpha, w) ==
  IF alpha = <<>> THEN (IF w = <<>> THEN 1 ELSE 0)
  ELSE countSplits(T, alpha, w, 0)

countSplits(T, alpha, w, k) ==
  IF k > Len(w) THEN 0
  ELSE LET u == SubSeq(w, 1, k)
           X == Head(alpha)
           c1 == IF X \in DOMAIN T THEN T[X][u]
                 ELSE IF u = <<X>> THEN 1 ELSE 0
       IN cap2((IF c1 = 0 THEN 0
                ELSE c1 * countSeq(T, Tail(alpha), SubSeq(w, k + 1, Len(w))))
               + countSplits(T, alpha, w, k + 1))

RECURSIVE countProductions(_, _, _, _, _)
countProductions(T, prods, N, w, k) ==
  IF k > Len(prods) THEN 0
  ELSE cap2((IF prods[k].lhs = N THEN countSeq(T, prods[k].rhs, w) ELSE 0)
            + countProductions(T, prods, N, w, k + 1))

RECURSIVE treesFrom(_, _)
treesFrom(T, prods) ==
  LET T2 == [N \in DOMAIN T |-> [w \in InputStrings |-> countProductions(T, prods, N, w, 1)]]
  IN IF T2 = T THEN T ELSE treesFrom(T2, prods)

Trees(text) ==
  LET prods == textProductions(text)
  IN treesFrom([N \in {prods[k].lhs : k \in 1..Len(prods)} |-> [w \in InputStrings |-> 0]],
               prods)

\* the terminals of the grammar texts are words of InputWords
InLanguage(text, w) == w \in InputStrings /\ Trees(text)[textStart(text)][w] >= 1

\* no string of InputStrings has two parse trees
Unambiguous(text) ==
  LET trees == Trees(text)[textStart(text)]
  IN \A w \in InputStrings : trees[w] <= 1

(* Derivation cycles of a parsed grammar: N derives N through productions  *)
(* whose other symbols all derive the empty string.                        *)

RECURSIVE nullableFrom(_, _)
nullableFrom(g, known) ==
  LET more == {g.productions[k].lhs : k \in
                 {k \in 1..Len(g.productions) :
                    \A j \in 1..Len(g.productions[k].rhs) :
                      g.productions[k].rhs[j] \in known \cup {EPSILON}}}
  IN IF more \subseteq known THEN known ELSE nullableFrom(g, known \cup more)

nullable(g) == nullableFrom(g, {})

unitSteps(g) ==
  {<<N, M>> \in Range(g.nonTerminals) \X Range(g.nonTerminals) :
     \E k \in 1..Len(g.productions) :
       \E j \in 1..Len(g.productions[k].rhs) :
         /\ g.productions[k].lhs = N
         /\ g.productions[k].rhs[j] = M
         /\ \A i \in 1..Len(g.productions[k].rhs) :
              i # j => g.productions[k].rhs[i] \in nullable(g) \cup {EPSILON}}

RECURSIVE reachFrom(_, _)
reachFrom(steps1, seen) ==
  LET more == {e[2] : e \in {e \in steps1 : e[1] \in seen}}
  IN IF more \subseteq seen THEN seen ELSE reachFrom(steps1, seen \cup more)

hasDerivationCycle(g) ==
  \E e \in unitSteps(g) : e[1] \in reachFrom(unitSteps(g), {e[2]})

\* C1: for an unambiguous grammar accepted by parseGrammar and the table
\* built from it, parseString returns and gives isValid = true exactly for the
\* token strings of the language (the empty string included when it is in
\* the language), accepting only after all input tokens were shifted.
C1_RoundTrip ==
  ((pc = "done" \/ CutOff) /\ Unambiguous(grammar)) =>
    /\ ~CutOff
    /\ pc = "done" =>
         /\ validationResult.isValid <=> InLanguage(grammar, input)
         /\ validationResult.isValid => pointer = Len(input)

\* C4: in the finished table every state holding the complete augmented
\* item with lookahead $ has acc in actions[state][$], and no other cell
\* holds acc.
C4_AcceptCell ==
  Built =>
    \A n \in 1..Len(items) :
      LET state == items[n]
          row == parsingTable.actions[state.id]
          hasAccepting == \E m \in 1..Len(state.items) :
                            /\ isComplete(state.items[m])
                            /\ state.items[m].production.id = 0
                            /\ state.items[m].lookahead = <<END>>
      IN /\ hasAccepting => (Has(row, END) /\ row[END] = Accept)
         /\ \A key \in DOMAIN row : row[key] = Accept => (key = END /\ hasAccepting)

\* C6: for a grammar accepted by parseGrammar that has no derivation cycle
\* through nullable symbols, every closure and computeFirst call returns and
\* generateClrItems halts with a list of states: no call stack is exhausted.
C6_ConstructionTerminates ==
  (parsedGrammar # NoGrammar /\ ~hasDerivationCycle(parsedGrammar))
    => error # RangeError

\* C10: a Grammar returned by parseGrammar has startSymbol = lhs of
\* productions[0], whose rhs is the lhs of the first input line; terminals
\* and nonTerminals are disjoint and together hold every symbol of every
\* production; $ is a terminal.
C10_GrammarWellFormed ==
  HasGrammar =>
    LET g == parsedGrammar
        known == Range(g.terminals) \cup Range(g.nonTerminals)
    IN /\ g.startSymbol = g.productions[1].lhs
       /\ g.productions[1].rhs = <<textStart(grammar)>>
       /\ Range(g.terminals) \cap Range(g.nonTerminals) = {}
       /\ \A k \in 1..Len(g.productions) :
            /\ g.productions[k].lhs \in known
            /\ \A j \in 1..Len(g.productions[k].rhs) : g.productions[k].rhs[j] \in known
       /\ END \in Range(g.terminals)

-----------------------------------------------------------------------------
(* Order independence of goto and closure *)

\* the permutations of 1..n, as sequences
RECURSIVE permutations(_)
permutations(n) ==
  IF n = 0 THEN {<<>>}
  ELSE {SubSeq(q, 1, i - 1) \o <<n>> \o SubSeq(q, i, n - 1) :
          q \in permutations(n - 1), i \in 1..n}

reorder(seq, q) == [k \in 1..Len(seq) |-> seq[q[k]]]

\* an item as a value: its production's two sides, its dot, its lookahead
core(item) ==
  [lhs |-> item.production.lhs, rhs |-> item.production.rhs,
   dotPosition |-> item.dotPosition, lookahead |-> item.lookahead]

cores(its) == {core(its[k]) : k \in 1..Len(its)}

\* C7: goto is a function of the item set and the symbol: on every
\* permutation of a state's items it returns the same set of items, with
\* the same signature; and each edge of generateDfa targets the state that
\* generateClrItems registered under the signature of the goto result.
C7_GotoIsFunction ==
  pc = "dfa" =>
    /\ \A n \in 1..Len(items) :
         \A symbol \in Range(symbolsAfterDot(items[n].items, <<>>)) :
           LET r == goto(parsedGrammar, items[n].items, symbol)
           IN \A q \in permutations(Len(items[n].items)) :
                LET rq == goto(parsedGrammar, reorder(items[n].items, q), symbol)
                IN /\ ~rq.thrown
                   /\ cores(rq.result) = cores(r.result)
                   /\ Len(rq.result) = Len(r.result)
                   /\ getStateSignature(rq.result) = getStateSignature(r.result)
    /\ \A k \in 1..Len(dfa.edges) :
         LET edge == dfa.edges[k]
             signature == getStateSignature(
                            goto(parsedGrammar, items[edge.source + 1].items, edge.label).result)
         IN /\ mapHas(stateMap, signature)
            /\ edge.target = mapGet(stateMap, signature)
            /\ stateMap[edge.target + 1].id = edge.target

\* an automaton with a state of several kernel items reached over an edge
C7_Witness ==
  /\ pc = "dfa"
  /\ \E k \in 1..Len(dfa.edges) :
       /\ Len(advance(items[dfa.edges[k].source + 1].items, dfa.edges[k].label)) >= 2
       /\ Len(items[dfa.edges[k].target + 1].items) >= 4
       /\ dfa.edges[k].target > dfa.edges[k].source

\* the items the expansion rule adds to S in one round
expansion(g, S) ==
  UNION {
    IF c.dotPosition < Len(c.rhs) /\ Includes(g.nonTerminals, c.rhs[c.dotPosition + 1])
    THEN LET beta == SubSeq(c.rhs, c.dotPosition + 2, Len(c.rhs))
             L == Range(computeFirst(g, beta \o c.lookahead).first) \ {EPSILON}
         IN {[lhs |-> g.productions[k].lhs, rhs |-> g.productions[k].rhs,
              dotPosition |-> 0, lookahead |-> <<l>>] :
               k \in {k \in 1..Len(g.productions) :
                        g.productions[k].lhs = c.rhs[c.dotPosition + 1]},
               l \in L}
    ELSE {} : c \in S}

\* the least set that contains S and is closed under the expansion rule
RECURSIVE leastClosed(_, _)
leastClosed(g, S) ==
  IF expansion(g, S) \subseteq S THEN S ELSE leastClosed(g, S \cup expansion(g, S))

\* the grammar with its productions after the first enumerated in order q
reorderProductions(g, q) ==
  [g EXCEPT !.productions =
     <<g.productions[1]>> \o reorder(SubSeq(g.productions, 2, Len(g.productions)), q)]

-----------------------------------------------------------------------------
(* parseGrammar called on its own, over texts built from a set of lines:   *)
(* production lines, lines with an empty right-hand side with and without  *)
(* whitespace after the arrow, empty and whitespace-only lines, and a line *)
(* that is no production.                                                  *)

MaxLines == 3

EmptyRhsLine == [words |-> <<"A", ARROW>>, trail |-> FALSE]
EmptyRhsSpaceLine == [words |-> <<"A", ARROW>>, trail |-> TRUE]
WhitespaceLine == [words |-> <<>>, trail |-> TRUE]

ParseLineChoices ==
  {Line(<<"S", ARROW, "a", "A">>), Line(<<"A", ARROW, "b">>), Line(<<"A", ARROW, EPSILON>>),
   EmptyRhsLine, EmptyRhsSpaceLine, BlankLine, WhitespaceLine, Line(<<"s", ARROW, "a">>)}

ParseTexts == UNION {[1..n -> ParseLineChoices] : n \in 0..MaxLines}

InitParse ==
  /\ copy \in Copies
  /\ grammar \in ParseTexts
  /\ pc = "text"
  /\ error = ""
  /\ parsedGrammar = NoGrammar
  /\ items = <<>>
  /\ stateMap = <<>>
  /\ dfa = NoDfa
  /\ parsingTable = NoTable
  /\ input = <<>>
  /\ tokens = <<>>
  /\ stack = <<>>
  /\ pointer = 0
  /\ steps = <<>>
  /\ validationResult = NoResult
  /\ isGenerating = FALSE
  /\ activeTab = "input"
  /\ pending = <<>>

NextParse == ParseGrammar

SpecParse == InitParse /\ [][NextParse]_vars

-----------------------------------------------------------------------------
(* Production ids *)

\* C11: productions[k].id = k for every k of a parsed grammar: id 0 is the
\* augmented production S' -> S and ids 1..N are the lines of the text in
\* order; every r<id> entry of the table was written for a complete item of
\* its state whose production is grammar.productions[id].
C11_DenseIds ==
  /\ HasGrammar =>
       LET g == parsedGrammar
           lines == trimSplit(grammar)
       IN /\ Len(g.productions) = Len(lines) + 1
          /\ \A k \in 1..Len(g.productions) : g.productions[k].id = k - 1
          /\ g.productions[1].lhs = g.startSymbol
          /\ g.productions[1].rhs = <<lines[1].words[1]>>
          /\ \A k \in 1..Len(lines) :
               /\ g.productions[k + 1].lhs = lines[k].words[1]
               /\ g.productions[k + 1].rhs = storedRhs(copy, rhsOfLine(lines[k]))
  /\ Built =>
       \A id \in DOMAIN parsingTable.actions :
         \A key \in DOMAIN parsingTable.actions[id] :
           LET action == parsingTable.actions[id][key]
           IN action.kind = "r" =>
                /\ action.n + 1 \in 1..Len(parsedGrammar.productions)
                /\ \E m \in 1..Len(items[id + 1].items) :
                     LET item == items[id + 1].items[m]
                     IN /\ isComplete(item)
                        /\ key \in Range(item.lookahead)
                        /\ item.production = parsedGrammar.productions[action.n + 1]

\* a run that reduced by the third production of a three-line text
C11_Witness ==
  /\ pc = "done"
  /\ Len(parsedGrammar.productions) = 4
  /\ validationResult.isValid
  /\ \E id \in DOMAIN parsingTable.actions :
       \E key \in DOMAIN parsingTable.actions[id] : parsingTable.actions[id][key] = Reduce(3)
  /\ \E k \in 1..Len(steps) : steps[k].kind = "Reduce" /\ steps[k].symbol = "A"

-----------------------------------------------------------------------------
(* Epsilon productions and the lines of the text *)

\* the lines of the text that parseGrammar turned into productions 1..N
sourceLines == trimSplit(grammar)

isEpsilonLine(line) == SubSeq(line.words, 3, Len(line.words)) = <<EPSILON>>

\* C12: a line `A -> <epsilon>` becomes a production with an empty rhs, and
\* every item over it is complete with the dot at 0: the automaton reduces
\* by it and has no transition on the epsilon marker for it.
C12_EpsilonRhsEmpty ==
  /\ HasGrammar =>
       \A k \in 1..Len(sourceLines) :
         isEpsilonLine(sourceLines[k]) => Len(parsedGrammar.productions[k + 1].rhs) = 0
  /\ HasItems =>
       \A n \in 1..Len(items) : \A m \in 1..Len(items[n].items) :
         LET item == items[n].items[m]
         IN (item.production.id >= 1 /\ isEpsilonLine(sourceLines[item.production.id]))
              => (item.dotPosition = 0 /\ isComplete(item))

\* a line of the form `LHS -> symbols` or `LHS ->`, whatever follows the
\* last word
isProductionLine(line) ==
  /\ Len(line.words) >= 2
  /\ isNonTerminalWord(line.words[1])
  /\ line.words[2] = ARROW
  /\ \A j \in 3..Len(line.words) :
       \/ line.words[j] = EPSILON
       \/ isTerminalWord(line.words[j])
       \/ isNonTerminalWord(line.words[j])

isEpsilonProduction(production) == production.rhs \in {<<>>, <<EPSILON>>}

\* C13: a text whose lines are all production lines is accepted, and a line
\* `LHS ->` with nothing or only whitespace after the arrow becomes an
\* epsilon production, wherever the line stands.
C13_EmptyRhsAccepted ==
  (grammar # <<>> /\ \A k \in 1..Len(grammar) : isProductionLine(grammar[k])) =>
    /\ pc # "failed"
    /\ pc = "parsed" =>
         \A k \in 1..Len(grammar) :
           Len(grammar[k].words) = 2 => isEpsilonProduction(parsedGrammar.productions[k + 1])

\* C14: a text without production lines (no line, or only empty and
\* whitespace-only lines) fails with the empty-grammar error and yields no
\* grammar.
C14_EmptyGrammarError ==
  (\A k \in 1..Len(grammar) : isBlank(grammar[k])) =>
    /\ pc # "parsed"
    /\ parsedGrammar = NoGrammar
    /\ pc = "failed" => error = "Grammar cannot be empty"

\* a non-blank line that is not `nonterminal -> symbols` with at least one
\* symbol
failsPattern(line) ==
  /\ ~isBlank(line)
  /\ ~(/\ Len(line.words) >= 3
       /\ isNonTerminalWord(line.words[1])
       /\ line.words[2] = ARROW)

\* C15: in a text that has a production line, the invalid-production-format
\* error is raised only if some non-blank line fails the pattern (blank
\* lines are skipped), and a failed parse leaves no grammar.
C15_FormatErrorOnlyForBadLines ==
  /\ pc = "failed" => parsedGrammar = NoGrammar
  /\ (/\ pc = "failed"
      /\ error = "Invalid production format"
      /\ \E k \in 1..Len(grammar) : ~isBlank(grammar[k]))
       => \E k \in 1..Len(grammar) : failsPattern(grammar[k])

-----------------------------------------------------------------------------
(* The recognizer *)

FailureKinds ==
  {"Error: No action found", "Error: No goto state found", "Error: Stack underflow"}

\* C16: parseString raises no exception, whatever the input tokens; when it
\* returns isValid = false the last trace entry names one of the three
\* failure outcomes, and when it returns isValid = true the last entry is
\* the acceptance.
C16_NoException ==
  /\ pc # "raised"
  /\ pc = "done" =>
       LET last == validationResult.steps[Len(validationResult.steps)]
       IN IF validationResult.isValid THEN last.kind = "String accepted!"
          ELSE last.kind \in FailureKinds

\* the action parseString selects in the current state of a run
currentAction ==
  LET row == parsingTable.actions[stack[Len(stack)]]
      currentToken == tokens[pointer + 1]
  IN IF Has(row, currentToken) THEN row[currentToken] ELSE [kind |-> "none", n |-> 0]

\* C17: a step that takes a reduce action for production p, with 2*|p.rhs|
\* entries at hand and a goto entry for p.lhs in the exposed state, leaves
\* the stack as it was below its top 2*|p.rhs| entries and pushes p.lhs and
\* the goto state; for an empty rhs the old stack is kept whole.
C17_ReducePopsExactly ==
  [][(pc = "parsing" /\ currentAction.kind = "r") =>
       LET production == parsedGrammar.productions[currentAction.n + 1]
           popCount == 2 * Len(production.rhs)
           below == SubSeq(stack, 1, Len(stack) - popCount)
       IN (/\ popCount < Len(stack)
           /\ Has(parsingTable.gotos[below[Len(below)]], production.lhs))
            => /\ stack' = below \o <<production.lhs,
                                      parsingTable.gotos[below[Len(below)]][production.lhs]>>
               /\ pc' = "parsing"
               /\ steps'[Len(steps')].kind = "Reduce"]_vars

\* the number of entries of kind k in a trace
RECURSIVE countKind(_, _)
countKind(trace, k) ==
  IF trace = <<>> THEN 0
  ELSE (IF Head(trace).kind = k THEN 1 ELSE 0) + countKind(Tail(trace), k)

\* the length of the run of Reduce entries at the end of a trace
RECURSIVE trailingReduces(_)
trailingReduces(trace) ==
  IF trace = <<>> \/ trace[Len(trace)].kind # "Reduce" THEN 0
  ELSE 1 + trailingReduces(SubSeq(trace, 1, Len(trace) - 1))

\* C18: for a grammar in which no nonterminal derives itself, a run of
\* parseString is never cut off by the step bound: every Shift step moves
\* the pointer by exactly one and every other step leaves it, the Shift
\* steps are as many as the pointer and at most the input tokens, and a run
\* of Reduce steps without a Shift is no longer than pointer * |nonTerminals|.
C18_ParseStringTerminates ==
  /\ [](CutOff => hasDerivationCycle(parsedGrammar))
  /\ []((pc \in {"parsing", "done"} /\ ~hasDerivationCycle(parsedGrammar)) =>
          /\ countKind(steps, "Shift") = pointer
          /\ pointer <= Len(tokens) - 1
          /\ trailingReduces(steps) <= pointer * Len(parsedGrammar.nonTerminals))
  /\ [][(pc = "parsing" /\ ~hasDerivationCycle(parsedGrammar)) =>
          IF currentAction.kind = "s"
          THEN /\ pointer' = pointer + 1
               /\ steps'[Len(steps')].kind = "Shift"
          ELSE /\ pointer' = pointer
               /\ countKind(steps', "Shift") = countKind(steps, "Shift")]_vars

\* an accepting run with three Shift steps and two Reduce steps in a row
C18_Witness ==
  /\ pc = "done"
  /\ validationResult.isValid
  /\ ~hasDerivationCycle(parsedGrammar)
  /\ pointer = 3
  /\ countKind(steps, "Shift") = 3
  /\ \E k \in 1..(Len(steps) - 1) : steps[k].kind = "Reduce" /\ steps[k + 1].kind = "Reduce"

-----------------------------------------------------------------------------
(* Several runs of parseString over one table: handleValidate may be       *)
(* called again after a run has ended.  parseString is synchronous, so the *)
(* runs of one table follow one another; each starts from locals of its    *)
(* own.                                                                    *)

InitRuns ==
  /\ copy \in Copies
  /\ grammar \in NamedTexts
  /\ pc = "text"
  /\ error = ""
  /\ parsedGrammar = NoGrammar
  /\ items = <<>>
  /\ stateMap = <<>>
  /\ dfa = NoDfa
  /\ parsingTable = NoTable
  /\ input = <<>>
  /\ tokens = <<>>
  /\ stack = <<>>
  /\ pointer = 0
  /\ steps = <<>>
  /\ validationResult = NoResult
  /\ isGenerating = FALSE
  /\ activeTab = "input"
  /\ pending = <<>>

\* a later run that appends to the trace of the run before it, as if the
\* trace were shared
ParseStringAgainShared ==
  /\ pc \in {"done", "raised"}
  /\ \E words \in Inputs :
       /\ input' = words
       /\ tokens' = split(words) \o <<END>>
  /\ stack' = <<0>>
  /\ pointer' = 0
  /\ pc' = "parsing"
  /\ UNCHANGED <<copy, grammar, error, parsedGrammar, items, stateMap, dfa, parsingTable,
                 steps, validationResult>>
  /\ UNCHANGED pageVars

\* the statements of parseString before its loop, in a later call
ParseStringAgain ==
  /\ pc \in {"done", "raised"}
  /\ \E words \in Inputs :
       /\ input' = words
       /\ tokens' = split(words) \o <<END>>
  /\ stack' = <<0>>
  /\ pointer' = 0
  /\ steps' = <<>>
  /\ pc' = "parsing"
  /\ UNCHANGED <<copy, grammar, error, parsedGrammar, items, stateMap, dfa, parsingTable,
                 validationResult>>
  /\ UNCHANGED pageVars

NextRuns ==
  \/ ParseGrammar
  \/ GenerateClrItems
  \/ GenerateDfa
  \/ GenerateParsingTable
  \/ ParseStringStart
  \/ ParseStringStep
  \/ ParseStringAgain

SpecRuns == InitRuns /\ [][NextRuns]_vars

\* parseString run from its first statement to its end, as handleValidate
\* stores its outcome; n bounds the steps still to take
RECURSIVE runFrom(_, _, _, _, _, _, _)
runFrom(g, table, toks, stk, ptr, trace, n) ==
  LET r == parseStep(g, table, toks, stk, ptr, trace)
  IN IF r.thrown THEN caught(TypeError)
     ELSE IF r.returned THEN [isValid |-> r.isValid, steps |-> r.steps]
     ELSE IF n = 0 THEN NoResult
     ELSE runFrom(g, table, toks, r.stack, r.pointer, r.steps, n - 1)

parseString(g, table, words) ==
  runFrom(g, table, split(words) \o <<END>>, <<0>>, 0, <<>>, MaxSteps)

-----------------------------------------------------------------------------
(* Item equality *)

\* the items over the productions of g with one terminal as lookahead
itemsOf(g) ==
  UNION {{[production |-> g.productions[k], dotPosition |-> d, lookahead |-> <<t>>] :
            d \in 0..Len(g.productions[k].rhs), t \in Range(g.terminals)} :
         k \in 1..Len(g.productions)}

\* C20: itemsEqual holds exactly for items with the same production id, the
\* same dot position and the same lookahead; so a state that holds an item
\* of one production holds the like item of every production with the same
\* two sides (the same rule written on another line).
C20_ItemsEqualById ==
  pc = "items" =>
    /\ \A item1, item2 \in itemsOf(parsedGrammar) :
         itemsEqual(item1, item2) <=>
           /\ item1.production.id = item2.production.id
           /\ item1.dotPosition = item2.dotPosition
           /\ item1.lookahead = item2.lookahead
    /\ \A n \in 1..Len(items) : \A m \in 1..Len(items[n].items) :
         LET item == items[n].items[m]
         IN \A k \in 1..Len(parsedGrammar.productions) :
              (/\ parsedGrammar.productions[k].lhs = item.production.lhs
               /\ parsedGrammar.productions[k].rhs = item.production.rhs)
                => \E j \in 1..Len(items[n].items) :
                     /\ items[n].items[j].production.id = k - 1
                     /\ items[n].items[j].dotPosition = item.dotPosition
                     /\ items[n].items[j].lookahead = item.lookahead

-----------------------------------------------------------------------------
(* The states of the automaton *)

\* C21: states[i].id = i for every state of the list generateClrItems
\* returns, state 0 is the closure of the augmented item with lookahead $,
\* and no two states of the list hold the same set of items.
C21_SequentialIdsDistinctStates ==
  HasItems =>
    /\ \A n \in 1..Len(items) : items[n].id = n - 1
    /\ items[1].kernel = <<[production |-> parsedGrammar.productions[1], dotPosition |-> 0,
                            lookahead |-> <<END>>]>>
    /\ items[1].items = closure(parsedGrammar, items[1].kernel).result
    /\ \A n1, n2 \in 1..Len(items) :
         cores(items[n1].items) = cores(items[n2].items) => n1 = n2

\* an automaton of ten states, two of which differ in their lookaheads only
C21_Witness ==
  /\ pc = "items"
  /\ Len(items) = 10
  /\ \E n1, n2 \in 1..Len(items) :
       /\ n1 # n2
       /\ {[c EXCEPT !.lookahead = <<>>] : c \in cores(items[n1].items)}
            = {[c EXCEPT !.lookahead = <<>>] : c \in cores(items[n2].items)}

-----------------------------------------------------------------------------
(* FIRST sets *)

\* the terminals that begin a string derivable from alpha, given the
\* terminals F[N] known to begin the strings of each nonterminal N
firstTerminals(g, F, alpha) ==
  UNION {IF \A i \in 1..(j - 1) : alpha[i] \in nullable(g) \cup {EPSILON}
         THEN IF alpha[j] \in Range(g.terminals) THEN {alpha[j]}
              ELSE IF alpha[j] \in DOMAIN F THEN F[alpha[j]]
              ELSE {}
         ELSE {} : j \in 1..Len(alpha)}

RECURSIVE firstSetsFrom(_, _)
firstSetsFrom(g, F) ==
  LET F2 == [N \in DOMAIN F |->
               UNION {firstTerminals(g, F, g.productions[k].rhs) :
                        k \in {k \in 1..Len(g.productions) : g.productions[k].lhs = N}}]
  IN IF F2 = F THEN F ELSE firstSetsFrom(g, F2)

\* FIRST of a symbol sequence: the terminals that begin its strings, and the
\* epsilon marker if it derives the empty string
FIRST(g, alpha) ==
  firstTerminals(g, firstSetsFrom(g, [N \in Range(g.nonTerminals) |-> {}]), alpha)
    \cup (IF \A i \in 1..Len(alpha) : alpha[i] \in nullable(g) \cup {EPSILON}
          THEN {EPSILON} ELSE {})

\* the sequences of one or two symbols of g
shortSequences(g) ==
  LET symbols == Range(g.terminals) \cup Range(g.nonTerminals)
  IN {<<x>> : x \in symbols} \cup {<<x, y>> : x, y \in symbols}

\* C22: for every sequence of symbols of a parsed grammar, a computeFirst
\* call that returns, returns exactly the FIRST set of the sequence.
C22_ComputeFirstIsFirst ==
  pc = "parsed" =>
    \A alpha \in shortSequences(parsedGrammar) :
      LET r == computeFirst(parsedGrammar, alpha)
      IN ~r.thrown => Range(r.first) = FIRST(parsedGrammar, alpha)

-----------------------------------------------------------------------------
(* The table and the edges of the automaton *)

\* C23: actions[src][t] is the shift to tgt exactly if (src, tgt, t) is an
\* edge with t a terminal, and gotos[src][N] is tgt exactly if (src, tgt, N)
\* is an edge with N a nonterminal.
C23_ShiftsAndGotosAreEdges ==
  Built =>
    /\ \A k \in 1..Len(dfa.edges) :
         LET edge == dfa.edges[k]
         IN /\ Includes(parsedGrammar.terminals, edge.label) =>
                 /\ Has(parsingTable.actions[edge.source], edge.label)
                 /\ parsingTable.actions[edge.source][edge.label] = Shift(edge.target)
            /\ Includes(parsedGrammar.nonTerminals, edge.label) =>
                 /\ Has(parsingTable.gotos[edge.source], edge.label)
                 /\ parsingTable.gotos[edge.source][edge.label] = edge.target
    /\ \A src \in DOMAIN parsingTable.actions :
         \A t \in DOMAIN parsingTable.actions[src] :
           startsWithS(parsingTable.actions[src][t]) =>
             /\ Includes(parsedGrammar.terminals, t)
             /\ \E k \in 1..Len(dfa.edges) :
                  dfa.edges[k] = [source |-> src, target |-> parsingTable.actions[src][t].n,
                                  label |-> t]
    /\ \A src \in DOMAIN parsingTable.gotos :
         \A N \in DOMAIN parsingTable.gotos[src] :
           /\ Includes(parsedGrammar.nonTerminals, N)
           /\ \E k \in 1..Len(dfa.edges) :
                dfa.edges[k] = [source |-> src, target |-> parsingTable.gotos[src][N],
                                label |-> N]

\* a table with a state that has a shift and a goto and a state whose
\* shift leads back to itself
C23_Witness ==
  /\ pc = "table"
  /\ \E src \in DOMAIN parsingTable.actions :
       /\ \E t \in DOMAIN parsingTable.actions[src] : parsingTable.actions[src][t] = Shift(src)
       /\ DOMAIN parsingTable.gotos[src] # {}
  /\ \E k \in 1..Len(dfa.edges) : dfa.edges[k].label \in Range(parsedGrammar.nonTerminals)

\* the positions, in the item order of a state, of the complete items of
\* productions other than the augmented one that have lookahead l
reducingItems(state, l) ==
  {m \in 1..Len(state.items) :
     /\ isComplete(state.items[m])
     /\ state.items[m].production.id # 0
     /\ l \in Range(state.items[m].lookahead)}

lastOf(S) == CHOOSE m \in S : \A n \in S : n <= m

\* C24: in a state with complete items of non-augmented productions for
\* lookahead l and no shift on l, actions[state][l] is the reduce of the
\* last of these items in the state's item order, several productions or
\* not; and every reduce cell (state, l) names the production of a complete
\* item of that state with lookahead l.
C24_LastReduceWins ==
  Built =>
    \A n \in 1..Len(items) :
      LET state == items[n]
          row == parsingTable.actions[state.id]
      IN /\ \A l \in Range(parsedGrammar.terminals) :
              (/\ reducingItems(state, l) # {}
               /\ ~(Has(row, l) /\ startsWithS(row[l])))
                => /\ Has(row, l)
                   /\ row[l] = Reduce(state.items[lastOf(reducingItems(state, l))].production.id)
         /\ \A l \in DOMAIN row :
              row[l].kind = "r" =>
                \E m \in reducingItems(state, l) : state.items[m].production.id = row[l].n

\* a state with complete items of two productions for one lookahead
C24_Witness ==
  /\ pc = "table"
  /\ \E n \in 1..Len(items) : \E l \in Range(parsedGrammar.terminals) :
       /\ \E m1, m2 \in reducingItems(items[n], l) :
            /\ m1 < m2
            /\ items[n].items[m1].production.id # items[n].items[m2].production.id
            /\ parsingTable.actions[items[n].id][l] = Reduce(items[n].items[m2].production.id)
       /\ \A m \in 1..Len(items[n].items) : items[n].items[m].production.id # 0

-----------------------------------------------------------------------------
(* Items *)

\* C25: every item of every state has its dot in 0..|rhs| and a lookahead
\* array of exactly one element, a terminal of the grammar (not the epsilon
\* marker, not a nonterminal); no state holds two equal items.
C25_ItemsWellFormed ==
  HasItems =>
    \A n \in 1..Len(items) :
      /\ \A m \in 1..Len(items[n].items) :
           LET item == items[n].items[m]
           IN /\ item.dotPosition \in 0..Len(item.production.rhs)
              /\ Len(item.lookahead) = 1
              /\ item.lookahead[1] \in Range(parsedGrammar.terminals)
              /\ item.lookahead[1] # EPSILON
              /\ item.lookahead[1] \notin Range(parsedGrammar.nonTerminals)
              /\ \E k \in 1..Len(parsedGrammar.productions) :
                   parsedGrammar.productions[k] = item.production
      /\ \A m1, m2 \in 1..Len(items[n].items) :
           (\/ items[n].items[m1] = items[n].items[m2]
            \/ itemsEqual(items[n].items[m1], items[n].items[m2])) => m1 = m2

\* a state built for a nullable nonterminal followed by a terminal: FIRST of
\* the rest held the epsilon marker, the items hold terminals only
C25_Witness ==
  /\ pc = "items"
  /\ \E n \in 1..Len(items) : \E m \in 1..Len(items[n].items) :
       LET item == items[n].items[m]
       IN /\ item.dotPosition + 1 < Len(item.production.rhs)
          /\ item.production.rhs[item.dotPosition + 1] \in Range(parsedGrammar.nonTerminals)
          /\ Includes(computeFirst(parsedGrammar, lookaheadSymbols(item)).first, EPSILON)
          /\ Len(items[n].items) >= 3

-----------------------------------------------------------------------------
(* The two copies *)

otherCopy(cp) == IF cp = "lib" THEN "part_001" ELSE "lib"

\* C26: on every text the parseGrammar of the other copy fails exactly if
\* the one of this copy fails, and otherwise returns an equal Grammar.
C26_CopiesAgree ==
  /\ pc = "failed" /\ error # RangeError =>
       parseGrammar(otherCopy(copy), grammar).error = error
  /\ pc = "parsed" =>
       /\ parseGrammar(otherCopy(copy), grammar).error = ""
       /\ parseGrammar(otherCopy(copy), grammar).grammar = parsedGrammar

-----------------------------------------------------------------------------
(* The stack of parseString *)

\* the stack is a path of the automaton from state 0
isPath(stk) ==
  /\ Len(stk) % 2 = 1
  /\ stk[1] = 0
  /\ \A i \in 1..Len(stk) :
       IF i % 2 = 1
       THEN stk[i] \in Range(parsingTable.states)
       ELSE stk[i] \in Range(parsedGrammar.terminals) \cup Range(parsedGrammar.nonTerminals)
  /\ \A i \in 0..((Len(stk) - 3) \div 2) :
       \E k \in 1..Len(dfa.edges) :
         dfa.edges[k] = [source |-> stk[2 * i + 1], target |-> stk[2 * i + 3],
                         label |-> stk[2 * i + 2]]

\* C27: at the start of every iteration of the loop of parseString the stack
\* has odd length, holds state 0 at its bottom, state ids and grammar
\* symbols in turn, and every state above the bottom is the target of the
\* edge that leaves the state below it with the symbol between them; a
\* reduce finds 2 * |rhs| entries above the bottom state, and no run ends
\* with a stack underflow.
C27_StackIsPath ==
  /\ pc = "parsing" =>
       /\ isPath(stack)
       /\ currentAction.kind = "r" =>
            2 * Len(parsedGrammar.productions[currentAction.n + 1].rhs) <= Len(stack) - 1
  /\ pc = "done" =>
       \A k \in 1..Len(steps) : steps[k].kind # "Error: Stack underflow"

\* a reduce by a production with two symbols on a stack of three states
C27_Witness ==
  /\ pc = "parsing"
  /\ Len(stack) = 7
  /\ currentAction.kind = "r"
  /\ Len(parsedGrammar.productions[currentAction.n + 1].rhs) = 2
  /\ stack[3] # stack[5]

-----------------------------------------------------------------------------
(* Input strings that hold the end marker: input.split(/\s+/) keeps a `$`  *)
(* of the caller as a token like any other.                                *)

ReservedInputs ==
  {w \in UNION {[1..n -> InputWords \cup {END}] : n \in 1..MaxInputLen} :
     \E i \in 1..Len(w) : w[i] = END}

\* the statements of parseString before its loop, for an input of the
\* caller that may hold `$`
ParseStringStartReserved ==
  /\ pc = "table"
  /\ \E words \in InputStrings \cup ReservedInputs :
       /\ input' = words
       /\ tokens' = split(words) \o <<END>>
  /\ stack' = <<0>>
  /\ pointer' = 0
  /\ steps' = <<>>
  /\ pc' = "parsing"
  /\ UNCHANGED <<copy, grammar, error, parsedGrammar, items, stateMap, dfa, parsingTable,
                 validationResult>>
  /\ UNCHANGED pageVars

NextReserved ==
  \/ ParseGrammar
  \/ GenerateClrItems
  \/ GenerateDfa
  \/ GenerateParsingTable
  \/ ParseStringStartReserved
  \/ ParseStringStep

SpecReserved == InitRuns /\ [][NextReserved]_vars

\* C28: when parseString returns isValid = true the pointer is at the last
\* element of tokens, the `$` that parseString appended, and every token of
\* the caller has been shifted.
C28_AcceptsAtAppendedEnd ==
  (pc = "done" /\ validationResult.isValid) =>
    /\ pointer = Len(tokens) - 1
    /\ countKind(steps, "Shift") = Len(input)

-----------------------------------------------------------------------------
(* The page (Home).  Its state is grammar, items, dfa, parsingTable,       *)
(* error, activeTab, parsedGrammar and isGenerating; null is "" for error  *)
(* and NoGrammar for parsedGrammar.  The page imports the lib copy.        *)
(*                                                                         *)
(* A handler is a closure of the render it was created in: the `grammar`   *)
(* it reads is the text of that render, also after an await.  An           *)
(* invocation that waits on a timer is an element of `pending`, in the     *)
(* order the timers were set: [handler, delay, grammar], grammar being the *)
(* text the invocation captured.  A timer fires after every timer set      *)
(* before it with the same or a shorter delay.  pc names the outcome of    *)
(* the invocation that finished last.                                      *)

MaxPending == 2

BlankMessage == "Please enter a grammar before generating the parser"

EmptyText == <<>>

\* the texts the user types
PageTexts == {EmptyText, LeftRecursiveGrammar, BadLineGrammar, ExampleGrammar}

\* !grammar.trim()
isBlankText(text) == dropLeadingBlank(text) = <<>>

outcome(handler, word) ==
  IF handler = "handleExampleGrammar" THEN "example " \o word ELSE word

InitPage ==
  /\ copy = "lib"
  /\ grammar = EmptyText
  /\ pc = "page"
  /\ error = ""
  /\ parsedGrammar = NoGrammar
  /\ items = <<>>
  /\ stateMap = <<>>
  /\ dfa = NoDfa
  /\ parsingTable = NoTable
  /\ input = <<>>
  /\ tokens = <<>>
  /\ stack = <<>>
  /\ pointer = 0
  /\ steps = <<>>
  /\ validationResult = NoResult
  /\ isGenerating = FALSE
  /\ activeTab = "input"
  /\ pending = <<>>

\* the user edits the text (GrammarInput calls setGrammar)
SetGrammar ==
  /\ \E text \in PageTexts :
       /\ text # grammar
       /\ grammar' = text
  /\ UNCHANGED <<copy, pc, error, parsedGrammar, items, stateMap, dfa, parsingTable, runVars,
                 pageVars>>

\* handleParseGrammar up to its await, for the text the closure captured
beginParseGrammar(handler, text, waiting) ==
  IF isBlankText(text)
  THEN /\ error' = BlankMessage
       /\ isGenerating' = FALSE
       /\ pending' = waiting
       /\ pc' = outcome(handler, "failed")
  ELSE /\ error' = ""
       /\ isGenerating' = TRUE
       /\ pending' = Append(waiting, [handler |-> handler, delay |-> 600, grammar |-> text])
       /\ UNCHANGED pc

\* handleParseGrammar after its await, for the text the closure captured:
\* each set... call made before an exception has taken effect
endParseGrammar(handler, text) ==
  LET r == parseGrammar(copy, text)
  IN IF r.error # ""
     THEN /\ error' = r.error
          /\ pc' = outcome(handler, "failed")
          /\ UNCHANGED <<parsedGrammar, items, dfa, parsingTable, activeTab>>
     ELSE LET clrItems == generateClrItems(r.grammar)
          IN IF clrItems.thrown
             THEN /\ parsedGrammar' = r.grammar
                  /\ error' = RangeError
                  /\ pc' = outcome(handler, "failed")
                  /\ UNCHANGED <<items, dfa, parsingTable, activeTab>>
             ELSE LET dfaResult == generateDfa(clrItems.states, r.grammar)
                  IN /\ parsedGrammar' = r.grammar
                     /\ items' = clrItems.states
                     /\ dfa' = dfaResult
                     /\ parsingTable' = generateParsingTable(clrItems.states, dfaResult, r.grammar)
                     /\ activeTab' = "dfa"
                     /\ pc' = outcome(handler, "generated")
                     /\ UNCHANGED error

\* a click on Generate (disabled while isGenerating)
HandleParseGrammar ==
  /\ ~isGenerating
  /\ Len(pending) < MaxPending
  /\ beginParseGrammar("handleParseGrammar", grammar, pending)
  /\ UNCHANGED <<copy, grammar, parsedGrammar, items, stateMap, dfa, parsingTable, runVars,
                 activeTab>>

\* a click on Load Example: handleExampleGrammar up to its await
HandleExampleGrammar ==
  /\ Len(pending) < MaxPending
  /\ grammar' = ExampleGrammar
  /\ pending' = Append(pending, [handler |-> "handleExampleGrammar", delay |-> 100,
                                 grammar |-> grammar])
  /\ UNCHANGED <<copy, pc, error, parsedGrammar, items, stateMap, dfa, parsingTable, runVars,
                 isGenerating, activeTab>>

\* handleExampleGrammar after its await: it calls the handleParseGrammar of
\* its own render
ResumeExampleGrammar ==
  /\ \E j \in 1..Len(pending) :
       /\ pending[j].delay = 100
       /\ \A i \in 1..(j - 1) : pending[i].delay > 100
       /\ beginParseGrammar("handleExampleGrammar", pending[j].grammar,
                            SubSeq(pending, 1, j - 1) \o SubSeq(pending, j + 1, Len(pending)))
  /\ UNCHANGED <<copy, grammar, parsedGrammar, items, stateMap, dfa, parsingTable, runVars,
                 activeTab>>

\* handleParseGrammar after its await
ResumeParseGrammar ==
  /\ pending # <<>>
  /\ pending[1].delay = 600
  /\ endParseGrammar(pending[1].handler, pending[1].grammar)
  /\ isGenerating' = FALSE
  /\ pending' = Tail(pending)
  /\ UNCHANGED <<copy, grammar, stateMap, runVars>>

NextPage ==
  \/ SetGrammar
  \/ HandleParseGrammar
  \/ HandleExampleGrammar
  \/ ResumeExampleGrammar
  \/ ResumeParseGrammar

SpecPage == InitPage /\ [][NextPage]_vars

\* C29: when the invocation started by Load Example has finished, the
\* grammar, the states, the automaton and the table of the page are those of
\* the example grammar, and no error is shown.
C29_ExampleIsParsed ==
  pc \in {"example generated", "example failed"} =>
    LET g == parseGrammar(copy, ExampleGrammar).grammar
        states == generateClrItems(g).states
    IN /\ error = ""
       /\ parsedGrammar = g
       /\ items = states
       /\ dfa = generateDfa(states, g)
       /\ parsingTable = generateParsingTable(states, dfa, g)

\* what the page holds is what handleParseGrammar computes from text, or
\* the initial value
fromText(text) ==
  LET r == parseGrammar(copy, text)
  IN /\ parsedGrammar # NoGrammar => r.error = "" /\ parsedGrammar = r.grammar
     /\ items # <<>> =>
          /\ r.error = ""
          /\ ~generateClrItems(r.grammar).thrown
          /\ items = generateClrItems(r.grammar).states
          /\ dfa = generateDfa(items, r.grammar)
          /\ parsingTable = generateParsingTable(items, dfa, r.grammar)
     /\ items = <<>> => dfa = NoDfa /\ parsingTable = NoTable

\* C30: once every invocation of handleParseGrammar has finished,
\* parsedGrammar, items, dfa and parsingTable were computed from one text,
\* error is set only if the invocation that finished last failed, and
\* isGenerating is false.
C30_PageConsistent ==
  pending = <<>> =>
    /\ \E text \in PageTexts : fromText(text)
    /\ error # "" => pc \in {"failed", "example failed"}
    /\ isGenerating = FALSE

====
